---- MODULE Spec2Model ----
(***************************************************************************)
(* A model of the AEDAT4 decoder of src/src/base.rs: the three            *)
(* constructors, read_io_header and Iterator::next for Decoder.            *)
(*                                                                         *)
(* Text and bytes are sequences of byte values (ASCII codes), an           *)
(* Option<T> is a sequence of length 0 (None) or 1 (Some).                 *)
(***************************************************************************)
EXTENDS Integers, Sequences, FiniteSets, TLC

VARIABLES
    input,      \* the structured content the source was written from (ghost)
    kind,       \* "file" | "unix" | "tcp": which Source the constructor opens
    file,       \* the bytes the Source delivers before end-of-source
    ioheader,   \* what the IOHeader accessors return over the header body
    cursor,     \* bytes consumed from the Source so far
    decoder,    \* Option<Decoder> held by the caller
    ctor,       \* the Result the constructor returned
    prev,       \* the cursor and the Decoder when next() was last called (ghost)
    last,       \* what the last call of next() returned
    trace       \* the outcome tags of all calls of next() so far

vars == <<input, kind, file, ioheader, cursor, decoder, ctor, prev, last, trace>>

----------------------------------------------------------------------------
(* Bounds of the model *)

\* records written after the header
MaxRecords == 2
\* bytes missing at the end of the source (a truncated file, a closed peer)
MaxDrop == 8
\* calls of next() on one Decoder
MaxCalls == 3

----------------------------------------------------------------------------
(* Text constants (ASCII) *)

\* "#!AER-DAT4.0\r\n"
MAGIC_NUMBER == <<35, 33, 65, 69, 82, 45, 68, 65, 84, 52, 46, 48, 13, 10>>

EVTS == <<69, 86, 84, 83>>
FRME == <<70, 82, 77, 69>>
IMUS == <<73, 77, 85, 83>>
TRIG == <<84, 82, 73, 71>>

\* "outInfo", "info", "typeIdentifier", "sizeX", "sizeY"
S_outInfo == <<111, 117, 116, 73, 110, 102, 111>>
S_info == <<105, 110, 102, 111>>
S_typeIdentifier == <<116, 121, 112, 101, 73, 100, 101, 110, 116, 105, 102, 105, 101, 114>>
S_sizeX == <<115, 105, 122, 101, 88>>
S_sizeY == <<115, 105, 122, 101, 89>>

\* uN::MAX as <<MAX div 10, MAX mod 10>>
U16_MAX == <<6553, 5>>
U32_MAX == <<429496729, 5>>

----------------------------------------------------------------------------
(* std helpers *)

Min(a, b) == IF a < b THEN a ELSE b

\* u32::from_le_bytes
from_le_bytes(b) == b[1] + 256 * b[2] + 65536 * b[3] + 16777216 * b[4]

\* u32::to_le_bytes, used to write the sources
to_le_bytes(n) ==
    <<n % 256, (n \div 256) % 256, (n \div 65536) % 256, (n \div 16777216) % 256>>

\* Read::read_exact on the Source: n bytes from the cursor, or an error when
\* end-of-source comes first (every byte left is consumed by then). The code
\* matches every error alike, so end-of-source stands for any read error.
read_exact(src, cur, n) ==
    IF cur + n <= Len(src)
    THEN [ok |-> TRUE, bytes |-> SubSeq(src, cur + 1, cur + n), cur |-> cur + n]
    ELSE [ok |-> FALSE, bytes |-> <<>>, cur |-> Len(src)]

\* std::str::from_utf8 on the bytes the model writes: ASCII is valid, a byte
\* >= 128 standing alone is not.
from_utf8_ok(bytes) == \A i \in 1..Len(bytes) : bytes[i] < 128

\* str::parse::<uN>: an optional '+', then decimal digits, no overflow.
\* max is uN::MAX as <<MAX div 10, MAX mod 10>>.
RECURSIVE ParseDigits(_, _, _)
ParseDigits(s, acc, max) ==
    IF s = <<>> THEN <<acc>>
    ELSE IF s[1] < 48 \/ s[1] > 57 THEN <<>>
    ELSE IF acc > max[1] \/ (acc = max[1] /\ s[1] - 48 > max[2]) THEN <<>>
    ELSE ParseDigits(Tail(s), acc * 10 + (s[1] - 48), max)

parse_uint(s, max) ==
    LET digits == IF s # <<>> /\ s[1] = 43 THEN Tail(s) ELSE s
    IN  IF digits = <<>> THEN <<>> ELSE ParseDigits(digits, 0, max)

\* Iterator::find over a sequence: Some(the first of the elements at the
\* indices hits) or None
FirstOf(seq, hits) ==
    IF hits = {} THEN <<>>
    ELSE <<seq[CHOOSE i \in hits : \A j \in hits : i <= j]>>

----------------------------------------------------------------------------
(* Results *)

Ok(v) == [ok |-> TRUE, v |-> v, kind |-> "", msg |-> ""]
Err(k, m) == [ok |-> FALSE, v |-> <<>>, kind |-> k, msg |-> m]

----------------------------------------------------------------------------
(* StreamContent *)

\* StreamContent::from
StreamContent_from(identifier) ==
    IF identifier = EVTS THEN Ok("Events")
    ELSE IF identifier = FRME THEN Ok("Frame")
    ELSE IF identifier = IMUS THEN Ok("Imus")
    ELSE IF identifier = TRIG THEN Ok("Triggers")
    ELSE Err("UnsupportedStreamType", "unsupported stream type")

\* a faulty variant of the Display impl: Events printed as "FRME"
StreamContent_to_string_events_as_frame(content) ==
    CASE content = "Events" -> FRME
      [] content = "Frame" -> FRME
      [] content = "Imus" -> IMUS
      [] content = "Triggers" -> TRIG

\* Display for StreamContent
StreamContent_to_string(content) ==
    CASE content = "Events" -> EVTS
      [] content = "Frame" -> FRME
      [] content = "Imus" -> IMUS
      [] content = "Triggers" -> TRIG

----------------------------------------------------------------------------
(* The description: the XML document tree roxmltree gives for the text.    *)
(* A node is [elem, tag, name, key, text, children]: is_element(), the tag *)
(* name, attribute("name"), attribute("key"), text(), children().          *)

XmlText == [elem |-> FALSE, tag |-> "", name |-> <<>>, key |-> <<>>,
            text |-> <<>>, children |-> <<>>]

XmlElem(tag, name, key, text, children) ==
    [elem |-> TRUE, tag |-> tag, name |-> name, key |-> key,
     text |-> text, children |-> children]

has_tag_name(node, tag) == node.elem /\ node.tag = tag

IsNamedNode(node, name) ==
    node.elem /\ has_tag_name(node, "node") /\ node.name = <<name>>

IsAttr(node, key) ==
    node.elem /\ has_tag_name(node, "attr") /\ node.key = <<key>>

----------------------------------------------------------------------------
(* read_io_header. Each step of the function is an operator that takes the *)
(* values computed so far and either returns early or goes on to the next. *)

NewDecoder(fdp) ==
    [id_to_stream |-> <<>>, position |-> 0, file_data_position |-> fdp,
     compression |-> "None"]

\* lines 244 and 256: .parse::<u16>()?
ParsedSize(n) == IF n = <<>> THEN Err("ParseInt", "") ELSE Ok(n[1])

\* lines 233-244 and 245-256: the sizeX / sizeY attribute, once looked up
SizeAttrOf(found) ==
    IF found = <<>> THEN Err("General", "missing sizeX attribute")
    ELSE IF found[1].text = <<>> THEN Err("General", "empty sizeX attribute")
    ELSE ParsedSize(parse_uint(found[1].text[1], U16_MAX))

SizeAttr(info_node, key) ==
    SizeAttrOf(FirstOf(info_node.children,
                       {i \in 1..Len(info_node.children) :
                            IsAttr(info_node.children[i], key)}))

\* lines 233-256: width is settled before height
SizePair(w, h) ==
    IF ~w.ok THEN w
    ELSE IF ~h.ok THEN h
    ELSE Ok([width |-> w.v, height |-> h.v])

\* lines 225-256
InfoSize(info) ==
    IF info = <<>> THEN Err("General", "missing info node")
    ELSE SizePair(SizeAttr(info[1], S_sizeX), SizeAttr(info[1], S_sizeY))

\* a faulty variant: the info node read for every kind that has one
StreamSize_any_kind(stream_node, identifier) ==
    IF identifier = EVTS \/ identifier = FRME
           \/ \E i \in 1..Len(stream_node.children) :
                  IsNamedNode(stream_node.children[i], S_info)
    THEN InfoSize(FirstOf(stream_node.children,
                          {i \in 1..Len(stream_node.children) :
                               IsNamedNode(stream_node.children[i], S_info)}))
    ELSE Ok([width |-> 0, height |-> 0])

\* lines 222-257: width and height of a stream
StreamSize(stream_node, identifier) ==
    IF identifier = EVTS \/ identifier = FRME
    THEN InfoSize(FirstOf(stream_node.children,
                          {i \in 1..Len(stream_node.children) :
                               IsNamedNode(stream_node.children[i], S_info)}))
    ELSE Ok([width |-> 0, height |-> 0])

\* lines 258-267: the size is settled before StreamContent::from is called
BuildStream(stream_id, size, content) ==
    IF ~size.ok THEN size
    ELSE IF ~content.ok THEN content
    ELSE Ok([stream_id |-> stream_id,
             stream |-> [content |-> content.v, width |-> size.v.width,
                         height |-> size.v.height]])

\* lines 207-267
StreamOfNode(stream_node, stream_id, ident_node) ==
    IF stream_id = <<>> THEN Err("ParseInt", "")
    ELSE IF ident_node = <<>>
    THEN Err("General", "missing stream node type identifier")
    ELSE IF ident_node[1].text = <<>>
    THEN Err("General", "empty stream node type identifier")
    ELSE BuildStream(stream_id[1],
                     StreamSize(stream_node, ident_node[1].text[1]),
                     StreamContent_from(ident_node[1].text[1]))

\* lines 203-267: the stream id and the Stream of one stream node
ParseStreamNode(stream_node) ==
    IF stream_node.name = <<>> THEN Err("General", "missing stream node id")
    ELSE StreamOfNode(stream_node,
                      parse_uint(stream_node.name[1], U32_MAX),
                      FirstOf(stream_node.children,
                              {i \in 1..Len(stream_node.children) :
                                   IsAttr(stream_node.children[i], S_typeIdentifier)}))

\* a faulty variant: the result of HashMap::insert not looked at
DuplicateId_never(id_to_stream, stream_id) == FALSE

\* HashMap::insert(..).is_some(): the id was already in the registry
DuplicateId(id_to_stream, stream_id) == stream_id \in DOMAIN id_to_stream

RECURSIVE ParseStreams(_, _)

\* lines 258-271
InsertStream(children, id_to_stream, parsed) ==
    IF ~parsed.ok THEN parsed
    ELSE IF DuplicateId(id_to_stream, parsed.v.stream_id)
    THEN Err("General", "duplicated stream id")
    ELSE ParseStreams(Tail(children),
                      id_to_stream @@ (parsed.v.stream_id :> parsed.v.stream))

\* lines 198-273: the loop over the children of the outInfo node
ParseStreams(children, id_to_stream) ==
    IF children = <<>> THEN Ok(id_to_stream)
    ELSE IF ~(children[1].elem /\ has_tag_name(children[1], "node"))
    THEN ParseStreams(Tail(children), id_to_stream)
    ELSE InsertStream(children, id_to_stream, ParseStreamNode(children[1]))

\* a faulty variant: the emptiness test of line 275 left out
RegistryIsEmpty_never(id_to_stream) == FALSE

\* line 275
RegistryIsEmpty(id_to_stream) == DOMAIN id_to_stream = {}

\* lines 275-278
FinishRegistry(d, streams) ==
    IF ~streams.ok THEN streams
    ELSE IF RegistryIsEmpty(streams.v)
    THEN Err("General", "no stream found in the description")
    ELSE Ok([d EXCEPT !.id_to_stream = streams.v])

\* lines 190-273
ParseOutput(d, output_node) ==
    IF output_node = <<>>
    THEN Err("General", "the description has no output node")
    ELSE FinishRegistry(d, ParseStreams(output_node[1].children, d.id_to_stream))

\* lines 187-197
ParseDv(d, dv_node) ==
    IF ~has_tag_name(dv_node, "dv")
    THEN Err("General", "unexpected dv node tag")
    ELSE ParseOutput(d, FirstOf(dv_node.children,
                                {i \in 1..Len(dv_node.children) :
                                     IsNamedNode(dv_node.children[i], S_outInfo)}))

\* lines 182-186: Document::parse, then the first child of the root
ParseDocument(d, document) ==
    IF ~document.wellformed THEN Err("RoxmlTree", "")
    ELSE IF document.children = <<>>
    THEN Err("General", "the description has no dv node")
    ELSE ParseDv(d, document.children[1])

\* lines 178-278: the description of the header, parsed into the registry
ParseDescription(d, hdr) ==
    IF hdr.description = <<>> THEN Err("General", "the description is empty")
    ELSE ParseDocument(d, hdr.description[1])

\* line 177: the header's end-of-data offset is stored in the decoder
HeaderDataPosition(d, hdr) == hdr.file_data_position

\* lines 172-278: the header body has been read
ReadHeaderMessage(d, hdr, bodyRead) ==
    IF ~bodyRead.ok THEN [res |-> Err("Io", ""), cur |-> bodyRead.cur]
    ELSE [res |-> ParseDescription(
                      [d EXCEPT !.compression = hdr.compression,
                                !.file_data_position = HeaderDataPosition(d, hdr)],
                      hdr),
          cur |-> bodyRead.cur]

\* line 171
\* a faulty variant: the 4 bytes of the length prefix not counted
AdvanceHeader_without_prefix(position, length) == position + length

AdvanceHeader(position, length) == position + 4 + length

\* lines 166-174: the header length has been read
ReadHeaderBody(d, src, hdr, lenRead) ==
    IF ~lenRead.ok THEN [res |-> Err("Io", ""), cur |-> lenRead.cur]
    ELSE ReadHeaderMessage(
             [d EXCEPT !.position = AdvanceHeader(@, from_le_bytes(lenRead.bytes))],
             hdr,
             read_exact(src, lenRead.cur, from_le_bytes(lenRead.bytes)))

\* lines 165-280. The result and the Source's cursor after the call.
read_io_header(d, src, cur, hdr) ==
    ReadHeaderBody(d, src, hdr, read_exact(src, cur, 4))

----------------------------------------------------------------------------
(* The constructors *)

\* a faulty variant: the comparison of lines 124-128 left out
MagicResult_no_comparison(magic) ==
    IF ~magic.ok THEN [res |-> Err("Io", ""), cur |-> magic.cur]
    ELSE IF ~from_utf8_ok(magic.bytes)
    THEN [res |-> Err("Utf8", ""), cur |-> magic.cur]
    ELSE [res |-> Ok(Len(MAGIC_NUMBER)), cur |-> magic.cur]

\* lines 123-129: the magic number has been read
MagicResult(magic) ==
    IF ~magic.ok THEN [res |-> Err("Io", ""), cur |-> magic.cur]
    ELSE IF ~from_utf8_ok(magic.bytes)
    THEN [res |-> Err("Utf8", ""), cur |-> magic.cur]
    ELSE IF magic.bytes # MAGIC_NUMBER
    THEN [res |-> Err("General",
                      "the file does not contain AEDAT4 data (wrong magic number)"),
          cur |-> magic.cur]
    ELSE [res |-> Ok(Len(MAGIC_NUMBER)), cur |-> magic.cur]

\* lines 121-130: the magic number of a file
CheckMagic(src, cur) == MagicResult(read_exact(src, cur, Len(MAGIC_NUMBER)))

\* lines 124-131
AfterMagic(src, hdr, magic) ==
    IF ~magic.res.ok THEN magic
    ELSE read_io_header([NewDecoder(0) EXCEPT !.position = @ + magic.res.v],
                        src, magic.cur, hdr)

\* lines 113-134
new_from_file_result(src, hdr) == AfterMagic(src, hdr, CheckMagic(src, 0))

\* lines 137-148 and 150-162
new_from_stream_result(src, hdr) == read_io_header(NewDecoder(-1), src, 0, hdr)

----------------------------------------------------------------------------
(* Decompression: the lz4 and zstd stream decoders over one frame. A frame *)
(* is the codec's magic number, the content size and the content; a        *)
(* decoder given no input at all yields no output and no error.            *)

LZ4_MAGIC == <<4, 34, 77, 24>>
ZSTD_MAGIC == <<40, 181, 47, 253>>

DecodeFrame(raw, magic) ==
    IF raw = <<>> THEN Ok(<<>>)
    ELSE IF Len(raw) < 5 \/ SubSeq(raw, 1, 4) # magic \/ raw[5] # Len(raw) - 5
    THEN Err("Io", "")
    ELSE Ok(SubSeq(raw, 6, Len(raw)))

\* lines 318-343
\* a faulty variant: an uncompressed payload put through the LZ4 decoder
Decompress_none_as_lz4(compression, raw_buffer) ==
    CASE compression \in {"None", "Lz4", "Lz4High"} -> DecodeFrame(raw_buffer, LZ4_MAGIC)
      [] compression \in {"Zstd", "ZstdHigh"} -> DecodeFrame(raw_buffer, ZSTD_MAGIC)
      [] OTHER -> Err("General", "unknown compression algorithm")

Decompress(compression, raw_buffer) ==
    CASE compression = "None" -> Ok(raw_buffer)
      [] compression \in {"Lz4", "Lz4High"} -> DecodeFrame(raw_buffer, LZ4_MAGIC)
      [] compression \in {"Zstd", "ZstdHigh"} -> DecodeFrame(raw_buffer, ZSTD_MAGIC)
      [] OTHER -> Err("General", "unknown compression algorithm")

----------------------------------------------------------------------------
(* Iterator::next for Decoder *)

NotCalled == [tag |-> "NotCalled", kind |-> "", msg |-> "", stream_id |-> 0, buffer |-> <<>>]
OutNone == [tag |-> "None", kind |-> "", msg |-> "", stream_id |-> 0, buffer |-> <<>>]
OutErr(k, m) == [tag |-> "Err", kind |-> k, msg |-> m, stream_id |-> 0, buffer |-> <<>>]
OutPanic == [tag |-> "Panic", kind |-> "", msg |-> "", stream_id |-> 0, buffer |-> <<>>]
OutPacket(stream_id, buffer) ==
    [tag |-> "Ok", kind |-> "", msg |-> "", stream_id |-> stream_id, buffer |-> buffer]

\* flatbuffers::buffer_has_identifier(data, ident, size_prefixed = true): the
\* identifier follows the 4-byte size prefix and the 4-byte root offset; the
\* function asserts that the buffer is long enough to hold it.
identifier_in_bounds(data) == Len(data) >= 12
buffer_has_identifier(data, ident) == SubSeq(data, 9, 12) = ident

\* line 292
\* a faulty variant: the termination check left out
Exhausted_never(d) == FALSE

\* a faulty variant: the test of the sentinel inverted
Exhausted_sentinel_inverted(d) ==
    d.file_data_position <= -1 /\ d.position = d.file_data_position

Exhausted(d) == d.file_data_position > -1 /\ d.position = d.file_data_position

\* a faulty variant: the failed read reported like the reads after it
StreamIdReadFailed_as_error == OutErr("Io", "")

\* lines 299-302: the stream id could not be read
StreamIdReadFailed == OutNone

\* a faulty variant: the stream id's 4 bytes not counted
AdvancePosition_payload_only(position, length) == position + 4 + length

\* line 313
AdvancePosition(position, length) == position + 8 + length

\* a faulty variant: a stream id absent from the registry let through
Validate_no_lookup(d, stream_id, buffer) ==
    IF stream_id \notin DOMAIN d.id_to_stream THEN OutPacket(stream_id, buffer)
    ELSE IF ~identifier_in_bounds(buffer) THEN OutPanic
    ELSE IF ~buffer_has_identifier(
                 buffer, StreamContent_to_string(d.id_to_stream[stream_id].content))
    THEN OutErr("General", "the stream id and the identifier do not match")
    ELSE OutPacket(stream_id, buffer)

\* a faulty variant: the identifier check of lines 349-354 left out
Validate_no_identifier_check(d, stream_id, buffer) ==
    IF stream_id \notin DOMAIN d.id_to_stream
    THEN OutErr("General", "unknown stream id")
    ELSE OutPacket(stream_id, buffer)

\* lines 344-355
Validate(d, stream_id, buffer) ==
    IF stream_id \notin DOMAIN d.id_to_stream
    THEN OutErr("General", "unknown stream id")
    ELSE IF ~identifier_in_bounds(buffer) THEN OutPanic
    ELSE IF ~buffer_has_identifier(
                 buffer, StreamContent_to_string(d.id_to_stream[stream_id].content))
    THEN OutErr("General", "the stream id and the identifier do not match")
    ELSE OutPacket(stream_id, buffer)

\* lines 318-355: the payload has been decompressed
Validated(d, stream_id, buffer) ==
    IF ~buffer.ok THEN OutErr(buffer.kind, buffer.msg)
    ELSE Validate(d, stream_id, buffer.v)

DecodePacket(d, stream_id, raw_buffer) ==
    Validated(d, stream_id, Decompress(d.compression, raw_buffer))

\* lines 314-355: the payload has been read
AfterPayloadRead(d, stream_id, rawRead) ==
    IF ~rawRead.ok THEN [d |-> d, cur |-> rawRead.cur, out |-> OutErr("Io", "")]
    ELSE [d |-> d, cur |-> rawRead.cur,
          out |-> DecodePacket(d, stream_id, rawRead.bytes)]

\* a faulty variant: the framed size added to file_data_position as well
AfterLengthRead_moves_data_position(d, src, stream_id, lenRead) ==
    IF ~lenRead.ok THEN [d |-> d, cur |-> lenRead.cur, out |-> OutErr("Io", "")]
    ELSE AfterPayloadRead(
             [d EXCEPT !.position = AdvancePosition(@, from_le_bytes(lenRead.bytes)),
                       !.file_data_position =
                           AdvancePosition(@, from_le_bytes(lenRead.bytes))],
             stream_id,
             read_exact(src, lenRead.cur, from_le_bytes(lenRead.bytes)))

\* lines 306-355: the length has been read
AfterLengthRead(d, src, stream_id, lenRead) ==
    IF ~lenRead.ok THEN [d |-> d, cur |-> lenRead.cur, out |-> OutErr("Io", "")]
    ELSE AfterPayloadRead(
             [d EXCEPT !.position = AdvancePosition(@, from_le_bytes(lenRead.bytes))],
             stream_id,
             read_exact(src, lenRead.cur, from_le_bytes(lenRead.bytes)))

\* lines 297-355: the stream id has been read
AfterStreamIdRead(d, src, idRead) ==
    IF ~idRead.ok THEN [d |-> d, cur |-> idRead.cur, out |-> StreamIdReadFailed]
    ELSE AfterLengthRead(d, src, from_le_bytes(idRead.bytes),
                         read_exact(src, idRead.cur, 4))

\* a faulty variant: the termination check counts an empty record
next_termination_advances(d, src, cur) ==
    IF Exhausted(d)
    THEN [d |-> [d EXCEPT !.position = AdvancePosition(@, 0)], cur |-> cur,
          out |-> OutNone]
    ELSE AfterStreamIdRead(d, src, read_exact(src, cur, 4))

\* lines 291-356: the decoder and the cursor after the call, and what it returns
next(d, src, cur) ==
    IF Exhausted(d) THEN [d |-> d, cur |-> cur, out |-> OutNone]
    ELSE AfterStreamIdRead(d, src, read_exact(src, cur, 4))

----------------------------------------------------------------------------
(* The sources the model opens *)

\* bytes of the IOHeader message body
HeaderBodyLen == 3

\* "+0" is S_plus0.
\* "0", "1", "346", "260", "640", "480", "abc", "70000", "XXXX"
S_0 == <<48>>
S_1 == <<49>>
S_346 == <<51, 52, 54>>
S_260 == <<50, 54, 48>>
S_640 == <<54, 52, 48>>
S_480 == <<52, 56, 48>>
S_plus0 == <<43, 48>>
S_abc == <<97, 98, 99>>
S_70000 == <<55, 48, 48, 48, 48>>
S_XXXX == <<88, 88, 88, 88>>

TypeAttr(text) == XmlElem("attr", <<>>, <<S_typeIdentifier>>, text, <<>>)
SizeXAttr(text) == XmlElem("attr", <<>>, <<S_sizeX>>, text, <<>>)
SizeYAttr(text) == XmlElem("attr", <<>>, <<S_sizeY>>, text, <<>>)
InfoNode(children) == XmlElem("node", <<S_info>>, <<>>, <<>>, children)
StreamNode(name, children) == XmlElem("node", name, <<>>, <<>>, children)
OutInfoNode(children) == XmlElem("node", <<S_outInfo>>, <<>>, <<>>, children)
DvNode(children) == XmlElem("dv", <<>>, <<>>, <<>>, children)
Document(children) == <<[wellformed |-> TRUE, children |-> children]>>
DvDocument(streams) == Document(<<DvNode(<<XmlText, OutInfoNode(streams)>>)>>)

EventsStream(name) ==
    StreamNode(name, <<TypeAttr(<<EVTS>>),
                       InfoNode(<<SizeXAttr(<<S_346>>), SizeYAttr(<<S_260>>)>>)>>)
FrameStream(name) ==
    StreamNode(name, <<XmlText, TypeAttr(<<FRME>>),
                       InfoNode(<<SizeXAttr(<<S_640>>), SizeYAttr(<<S_480>>)>>)>>)

\* stream 0 = Events 346x260, stream 1 = Frame 640x480
GoodDescription ==
    DvDocument(<<XmlText, EventsStream(<<S_0>>), XmlText, FrameStream(<<S_1>>)>>)

\* descriptions that build a registry
ValidDescriptions ==
    { GoodDescription,
      DvDocument(<<EventsStream(<<S_0>>)>>),
      \* Imus without an info node, Triggers with one
      DvDocument(<<StreamNode(<<S_0>>, <<TypeAttr(<<IMUS>>)>>),
                   StreamNode(<<S_1>>,
                              <<TypeAttr(<<TRIG>>),
                                InfoNode(<<SizeXAttr(<<S_640>>),
                                           SizeYAttr(<<S_480>>)>>)>>)>>) }

\* descriptions the header parser refuses
InvalidDescriptions ==
    { <<>>,                                           \* no description
      <<[wellformed |-> FALSE, children |-> <<>>]>>,  \* not XML
      Document(<<OutInfoNode(<<EventsStream(<<S_0>>)>>)>>),   \* root is not dv
      Document(<<DvNode(<<XmlText, InfoNode(<<>>)>>)>>),      \* no outInfo
      DvDocument(<<>>),                               \* no stream node
      DvDocument(<<XmlText, TypeAttr(<<EVTS>>)>>),    \* no stream node either
      DvDocument(<<EventsStream(<<S_0>>), FrameStream(<<S_0>>)>>),   \* duplicate
      DvDocument(<<EventsStream(<<S_0>>), FrameStream(<<S_plus0>>)>>),
      DvDocument(<<EventsStream(<<S_0>>),
                   StreamNode(<<S_1>>, <<TypeAttr(<<S_XXXX>>)>>)>>), \* unsupported
      DvDocument(<<StreamNode(<<S_0>>, <<TypeAttr(<<EVTS>>)>>)>>),   \* no info
      DvDocument(<<StreamNode(<<S_0>>,
                              <<TypeAttr(<<FRME>>),
                                InfoNode(<<SizeYAttr(<<S_480>>)>>)>>)>>),
      DvDocument(<<StreamNode(<<S_0>>,
                              <<TypeAttr(<<EVTS>>),
                                InfoNode(<<SizeXAttr(<<S_640>>)>>)>>)>>),
      DvDocument(<<StreamNode(<<S_0>>,
                              <<TypeAttr(<<EVTS>>),
                                InfoNode(<<SizeXAttr(<<S_70000>>),
                                           SizeYAttr(<<S_480>>)>>)>>)>>),
      DvDocument(<<StreamNode(<<S_0>>,
                              <<TypeAttr(<<EVTS>>),
                                InfoNode(<<SizeXAttr(<<S_640>>),
                                           SizeYAttr(<<>>)>>)>>)>>),
      DvDocument(<<EventsStream(<<>>)>>),             \* no name attribute
      DvDocument(<<EventsStream(<<S_abc>>)>>),        \* name is no number
      DvDocument(<<StreamNode(<<S_0>>, <<InfoNode(<<>>)>>)>>),   \* no identifier
      DvDocument(<<StreamNode(<<S_0>>, <<TypeAttr(<<>>)>>)>>) }  \* empty identifier

Descriptions == ValidDescriptions \cup InvalidDescriptions

\* Compression values of the header; "Other" is a value outside the five modes
Compressions == {"None", "Lz4", "Lz4High", "Zstd", "ZstdHigh", "Other"}

\* the encoder a mode asks for
EncoderOf(compression) ==
    CASE compression \in {"Lz4", "Lz4High"} -> "Lz4"
      [] compression \in {"Zstd", "ZstdHigh"} -> "Zstd"
      [] OTHER -> "None"

\* <<compression of the header, encoder the payloads were written with>>
CodecPairs ==
    {<<c, EncoderOf(c)>> : c \in Compressions}
        \cup {<<"Lz4", "None">>, <<"None", "Lz4">>, <<"Zstd", "Lz4">>}

\* a size-prefixed flatbuffer carrying the identifier
FlatBuffer(ident) == to_le_bytes(8) \o to_le_bytes(8) \o ident

EncodeFrame(data, magic) == magic \o <<Len(data)>> \o data

\* the payload bytes of a record: content is None (no payload) or Some(identifier)
EncodePayload(enc, content) ==
    IF content = <<>> THEN <<>>
    ELSE CASE enc = "None" -> FlatBuffer(content[1])
           [] enc = "Lz4" -> EncodeFrame(FlatBuffer(content[1]), LZ4_MAGIC)
           [] enc = "Zstd" -> EncodeFrame(FlatBuffer(content[1]), ZSTD_MAGIC)

EncodeRecord(enc, r) ==
    LET payload == EncodePayload(enc, r.content)
    IN  to_le_bytes(r.stream_id) \o to_le_bytes(Len(payload)) \o payload

RECURSIVE EncodeRecords(_, _)
EncodeRecords(enc, recs) ==
    IF recs = <<>> THEN <<>>
    ELSE EncodeRecord(enc, Head(recs)) \o EncodeRecords(enc, Tail(recs))

EncodeHeader == to_le_bytes(HeaderBodyLen) \o [i \in 1..HeaderBodyLen |-> 0]

\* the records a source may hold
RecordChoices ==
    { [stream_id |-> 0, content |-> <<EVTS>>],
      [stream_id |-> 1, content |-> <<FRME>>],
      [stream_id |-> 0, content |-> <<FRME>>],
      [stream_id |-> 2, content |-> <<EVTS>>],
      [stream_id |-> 0, content |-> <<>>],
      [stream_id |-> 2, content |-> <<>>] }

RecordSeqs == UNION {[1..n -> RecordChoices] : n \in 0..MaxRecords}

\* "#!AER-DAT3.1\r\n", and a preamble that is not UTF-8
OldMagic == [MAGIC_NUMBER EXCEPT ![10] = 51, ![12] = 49]
BinaryMagic == [MAGIC_NUMBER EXCEPT ![1] = 255]

Preambles(k) ==
    IF k = "file" THEN {MAGIC_NUMBER, OldMagic, BinaryMagic} ELSE {<<>>}

SourceKinds == {"file", "unix", "tcp"}

\* offset just past the first i records
RecordEnd(in, i) ==
    Len(in.preamble) + Len(EncodeHeader)
        + Len(EncodeRecords(in.enc, SubSeq(in.recs, 1, i)))

SourceBytes(in) ==
    LET full == in.preamble \o EncodeHeader \o EncodeRecords(in.enc, in.recs)
    IN  SubSeq(full, 1, Len(full) - in.dropped)

NoCtor == [called |-> FALSE, ok |-> FALSE, kind |-> "", msg |-> ""]

InitWith(k, in, hdr) ==
    /\ kind = k
    /\ input = in
    /\ file = SourceBytes(in)
    /\ ioheader = hdr
    /\ cursor = 0
    /\ decoder = <<>>
    /\ ctor = NoCtor
    /\ prev = [cursor |-> 0, decoder |-> <<>>]
    /\ last = NotCalled
    /\ trace = <<>>

\* sources for the header parser: any preamble and description, cut anywhere
InitHeaders ==
    \E k \in SourceKinds, desc \in Descriptions :
    \E pre \in Preambles(k) :
    \E dropped \in 0..(Len(pre) + Len(EncodeHeader)) :
        InitWith(k,
                 [preamble |-> pre, recs |-> <<>>, enc |-> "None", dropped |-> dropped],
                 [compression |-> "None", file_data_position |-> -1,
                  description |-> desc])

RecordInput(k, enc, recs, dropped) ==
    [preamble |-> IF k = "file" THEN MAGIC_NUMBER ELSE <<>>,
     recs |-> recs, enc |-> enc, dropped |-> dropped]

GoodHeader(compression, fdp) ==
    [compression |-> compression, file_data_position |-> fdp,
     description |-> GoodDescription]

\* sources for the iterator, whole: every compression mode and encoder, the
\* header's end-of-data offset unknown or just past the last record
InitCodecs ==
    \E k \in SourceKinds, pair \in CodecPairs, recs \in RecordSeqs :
    \E in \in {RecordInput(k, pair[2], recs, 0)} :
    \E fdp \in {-1, RecordEnd(in, Len(recs))} :
        InitWith(k, in, GoodHeader(pair[1], fdp))

\* <<compression, encoder>> of the sources whose end may be missing
TruncationPairs == {<<"None", "None">>, <<"Zstd", "Zstd">>}

\* sources for the iterator, the end possibly missing, the header's
\* end-of-data offset unknown, at a record boundary or inside a record
InitTruncated ==
    \E k \in SourceKinds, pair \in TruncationPairs, recs \in RecordSeqs :
    \E dropped \in 0..Min(MaxDrop, Len(EncodeRecords(pair[2], recs))) :
    \E in \in {RecordInput(k, pair[2], recs, dropped)} :
    \E fdp \in {-1, RecordEnd(in, 0) + 1}
                  \cup {RecordEnd(in, i) : i \in 0..Len(recs)} :
        InitWith(k, in, GoodHeader(pair[1], fdp))

Init == InitHeaders \/ InitCodecs \/ InitTruncated

----------------------------------------------------------------------------
(* Actions *)

Construct(r) ==
    /\ ~ctor.called
    /\ cursor' = r.cur
    /\ decoder' = IF r.res.ok THEN <<r.res.v>> ELSE <<>>
    /\ ctor' = [called |-> TRUE, ok |-> r.res.ok, kind |-> r.res.kind,
                msg |-> r.res.msg]
    /\ UNCHANGED <<input, kind, file, ioheader, prev, last, trace>>

new_from_file ==
    /\ kind = "file"
    /\ \E r \in {new_from_file_result(file, ioheader)} : Construct(r)

new_from_unix_stream ==
    /\ kind = "unix"
    /\ \E r \in {new_from_stream_result(file, ioheader)} : Construct(r)

new_from_tcp_stream ==
    /\ kind = "tcp"
    /\ \E r \in {new_from_stream_result(file, ioheader)} : Construct(r)

\* one call of next() on the Decoder; a panic ends the use of the Decoder
CallNext ==
    /\ decoder # <<>>
    /\ last.tag # "Panic"
    /\ Len(trace) < MaxCalls
    /\ prev' = [cursor |-> cursor, decoder |-> decoder]
    /\ \E r \in {next(decoder[1], file, cursor)} :
           /\ decoder' = <<r.d>>
           /\ cursor' = r.cur
           /\ last' = r.out
           /\ trace' = Append(trace, r.out.tag)
    /\ UNCHANGED <<input, kind, file, ioheader, ctor>>

Next ==
    \/ new_from_file
    \/ new_from_unix_stream
    \/ new_from_tcp_stream
    \/ CallNext

Spec == Init /\ [][Next]_vars

----------------------------------------------------------------------------
(* Properties *)

\* the Decoder the caller holds
D == decoder[1]

\* next() has been called; the Decoder it was called on
Called == last.tag # "NotCalled"
PrevD == prev.decoder[1]

\* the last call of next() got past the termination check of line 292
PastTerminationCheck == Called /\ ~Exhausted(PrevD)

\* bytes the source held when next() was last called, and the record header
\* and payload at the cursor then
Remaining == Len(file) - prev.cursor
PrevStreamId == from_le_bytes(SubSeq(file, prev.cursor + 1, prev.cursor + 4))
PrevLength == from_le_bytes(SubSeq(file, prev.cursor + 5, prev.cursor + 8))
PrevRaw == SubSeq(file, prev.cursor + 9, prev.cursor + 8 + PrevLength)
CompleteHeader == Remaining >= 8
CompleteRecord == CompleteHeader /\ Remaining >= 8 + PrevLength

\* the identifier tag of each content kind
KindTag == [Events |-> EVTS, Frame |-> FRME, Imus |-> IMUS, Triggers |-> TRIG]

\* the identifier tag a size-prefixed buffer carries
TagOf(buffer) == SubSeq(buffer, 9, 12)

\* the registry the header describes
HeaderRegistry == ParseDescription(NewDecoder(0), ioheader)

ValidRecord(r) ==
    /\ r.content # <<>>
    /\ r.stream_id \in DOMAIN HeaderRegistry.v.id_to_stream
    /\ KindTag[HeaderRegistry.v.id_to_stream[r.stream_id].content] = r.content[1]

\* a seekable source with the magic number, a valid header whose
\* file_data_position is the offset just past the last record, and valid records
WellFormedSeekable ==
    /\ kind = "file"
    /\ input.preamble = MAGIC_NUMBER
    /\ input.dropped = 0
    /\ HeaderRegistry.ok
    /\ ioheader.compression \in {"None", "Lz4", "Lz4High", "Zstd", "ZstdHigh"}
    /\ input.enc = EncoderOf(ioheader.compression)
    /\ ioheader.file_data_position = RecordEnd(input, Len(input.recs))
    /\ \A i \in 1..Len(input.recs) : ValidRecord(input.recs[i])

\* C1: on a well-formed seekable source with N records construction succeeds,
\* the first N calls of next() return packets, call N+1 returns None, and
\* position is file_data_position after the N-th packet.
C1_WellFormedIteration ==
    (WellFormedSeekable /\ ctor.called) =>
        /\ ctor.ok
        /\ \A i \in 1..Len(trace) :
               /\ i <= Len(input.recs) => trace[i] = "Ok"
               /\ i = Len(input.recs) + 1 => trace[i] = "None"
        /\ Len(trace) = Len(input.recs) => D.position = D.file_data_position

C1_Witness ==
    /\ WellFormedSeekable
    /\ Len(input.recs) = 2
    /\ trace = <<"Ok", "Ok", "None">>
    /\ D.position = ioheader.file_data_position

\* C2: once next() has returned an error, no later call returns a packet.
C2_FailedIsSticky ==
    \A i \in 1..Len(trace) : \A j \in 1..Len(trace) :
        (i < j /\ trace[i] = "Err") => trace[j] # "Ok"

\* C3: a call of next() past the termination check on a source that holds 1
\* to 7 bytes, or a record header whose length exceeds the bytes left,
\* returns an I/O error and not None.
C3_TruncatedRecordIsError ==
    (/\ PastTerminationCheck
     /\ \/ Remaining >= 1 /\ Remaining < 8
        \/ CompleteHeader /\ ~CompleteRecord)
        => (last.tag = "Err" /\ last.kind = "Io")

\* C4: when the 4-byte stream id cannot be read, next() returns None, for
\* every kind of source and whether or not file_data_position is known.
C4_StreamIdReadFailureIsCompletion ==
    (PastTerminationCheck /\ Remaining < 4) => last = OutNone

C4_Witness ==
    /\ PastTerminationCheck
    /\ kind = "tcp"
    /\ PrevD.file_data_position = -1
    /\ Remaining \in 1..3
    /\ last = OutNone

\* C5: a packet next() returns has a stream id of the registry and a buffer
\* that carries the identifier tag of the kind declared for that stream id.
C5_PacketMatchesRegistry ==
    last.tag = "Ok" =>
        /\ last.stream_id \in DOMAIN D.id_to_stream
        /\ Len(last.buffer) >= 12
        /\ TagOf(last.buffer) = KindTag[D.id_to_stream[last.stream_id].content]
        /\ TagOf(last.buffer) \in {EVTS, FRME, IMUS, TRIG}

C5_Witness ==
    /\ last.tag = "Ok"
    /\ last.stream_id = 1
    /\ D.compression = "ZstdHigh"
    /\ TagOf(last.buffer) = FRME

\* C6 as stated: a complete record header with a stream id absent from the
\* registry makes next() return "unknown stream id", whatever the payload.
C6_UnknownStreamIdAlways ==
    (PastTerminationCheck /\ CompleteHeader
        /\ PrevD.compression \in {"None", "Lz4", "Lz4High", "Zstd", "ZstdHigh"}
        /\ PrevStreamId \notin DOMAIN PrevD.id_to_stream)
        => last = OutErr("General", "unknown stream id")

\* C6 amended: a complete record (header and payload) with a stream id absent
\* from the registry, whose payload decompresses under the session's mode,
\* makes next() return "unknown stream id".
C6_UnknownStreamIdAfterDecompression ==
    (PastTerminationCheck /\ CompleteRecord
        /\ PrevStreamId \notin DOMAIN PrevD.id_to_stream
        /\ Decompress(PrevD.compression, PrevRaw).ok)
        => last = OutErr("General", "unknown stream id")

C6_Witness ==
    /\ PastTerminationCheck /\ CompleteRecord
    /\ PrevStreamId = 2
    /\ PrevD.compression = "Lz4"
    /\ Decompress(PrevD.compression, PrevRaw).ok
    /\ PrevRaw # <<>>
    /\ last = OutErr("General", "unknown stream id")

NotMagic == Len(file) < 14 \/ SubSeq(file, 1, 14) # MAGIC_NUMBER

WrongMagic ==
    "the file does not contain AEDAT4 data (wrong magic number)"

\* C8 as stated: a file whose first 14 bytes are not the magic number (or
\* that is shorter) fails construction with the General "wrong magic number"
\* error, and no byte past the preamble has been read.
C8_BadMagicIsGeneralError ==
    (kind = "file" /\ ctor.called /\ NotMagic) =>
        /\ ~ctor.ok /\ ctor.kind = "General" /\ ctor.msg = WrongMagic
        /\ cursor <= 14

\* C8 amended: such a file fails construction, with an I/O error when fewer
\* than 14 bytes are there, a UTF-8 error when the 14 bytes are not UTF-8,
\* the General "wrong magic number" error otherwise; no byte past the
\* preamble has been read.
C8_BadMagicFailsConstruction ==
    (kind = "file" /\ ctor.called /\ NotMagic) =>
        /\ ~ctor.ok
        /\ decoder = <<>>
        /\ cursor <= 14
        /\ Len(file) < 14 => ctor.kind = "Io"
        /\ (Len(file) >= 14 /\ \E i \in 1..14 : file[i] >= 128)
               => ctor.kind = "Utf8"
        /\ (Len(file) >= 14 /\ \A i \in 1..14 : file[i] < 128)
               => (ctor.kind = "General" /\ ctor.msg = WrongMagic)

C8_Witness ==
    /\ kind = "file" /\ ctor.called /\ NotMagic
    /\ Len(file) > 14
    /\ cursor = 14
    /\ ctor.kind = "General" /\ ctor.msg = WrongMagic

\* C9: a Decoder of a streaming constructor has file_data_position -1
\* whatever the header holds, and next() never returns None for it through
\* the termination check.
C9_StreamingPositionUnknown ==
    (kind \in {"unix", "tcp"} /\ ctor.called /\ ctor.ok) =>
        /\ D.file_data_position = -1
        /\ (Called /\ last.tag = "None") => ~Exhausted(PrevD)

\* the description has an outInfo node without any stream node
NoStreamNode ==
    /\ ioheader.description # <<>>
    /\ ioheader.description[1].wellformed
    /\ ioheader.description[1].children # <<>>
    /\ \E i \in 1..Len(ioheader.description[1].children[1].children) :
           LET out == ioheader.description[1].children[1].children[i]
           IN  /\ out.elem /\ out.tag = "node" /\ out.name = <<S_outInfo>>
               /\ \A j \in 1..Len(out.children) :
                      ~(out.children[j].elem /\ out.children[j].tag = "node")

\* C10: a successful construction returns a Decoder whose registry is not
\* empty; a description without stream nodes fails construction; a failed
\* construction returns no Decoder.
C10_RegistryNotEmpty ==
    ctor.called =>
        /\ ctor.ok => (decoder # <<>> /\ DOMAIN D.id_to_stream # {})
        /\ ~ctor.ok => decoder = <<>>
        /\ NoStreamNode => ~ctor.ok

C10_Witness ==
    /\ ctor.called
    /\ NoStreamNode
    /\ ~ctor.ok
    /\ ctor.msg = "no stream found in the description"
    /\ cursor = Len(file)

----------------------------------------------------------------------------
(* The description as written: its nodes, read without the parser *)

\* the description is XML with a root element; that element
HasRoot ==
    /\ ioheader.description # <<>>
    /\ ioheader.description[1].wellformed
    /\ ioheader.description[1].children # <<>>
RootNode == ioheader.description[1].children[1]

\* the outInfo nodes under the root element, and the first of them
OutInfoIdx ==
    {i \in 1..Len(RootNode.children) :
        /\ RootNode.children[i].elem
        /\ RootNode.children[i].tag = "node"
        /\ RootNode.children[i].name = <<S_outInfo>>}
OutInfo == RootNode.children[CHOOSE i \in OutInfoIdx : \A j \in OutInfoIdx : i <= j]

\* the stream nodes under outInfo
StreamIdx ==
    {j \in 1..Len(OutInfo.children) :
        OutInfo.children[j].elem /\ OutInfo.children[j].tag = "node"}
StreamNodeAt(j) == OutInfo.children[j]

\* the children of a node that are attr elements with the key, or node
\* elements with the name
AttrsOf(n, key) ==
    {c \in {n.children[i] : i \in 1..Len(n.children)} :
        c.elem /\ c.tag = "attr" /\ c.key = <<key>>}
NodesOf(n, name) ==
    {c \in {n.children[i] : i \in 1..Len(n.children)} :
        c.elem /\ c.tag = "node" /\ c.name = <<name>>}

\* the stream id a stream node names, as Option
NodeId(n) == IF n.name = <<>> THEN <<>> ELSE parse_uint(n.name[1], U32_MAX)

DuplicateIds ==
    \E i \in StreamIdx, j \in StreamIdx :
        /\ i # j
        /\ NodeId(StreamNodeAt(i)) # <<>>
        /\ NodeId(StreamNodeAt(i)) = NodeId(StreamNodeAt(j))

UnsupportedIdentifier ==
    \E j \in StreamIdx : \E a \in AttrsOf(StreamNodeAt(j), S_typeIdentifier) :
        a.text # <<>> /\ a.text[1] \notin {EVTS, FRME, IMUS, TRIG}

\* C11: construction fails when the description has no outInfo node, two
\* stream nodes with the same id, or a stream node with another type code
\* than EVTS, FRME, IMUS, TRIG; the registry construction returns has one
\* entry for each stream node and only the four kinds.
C11_BadDescriptionFails ==
    (ctor.called /\ ~Called /\ HasRoot) =>
        /\ OutInfoIdx = {} => ~ctor.ok
        /\ (OutInfoIdx # {} /\ (DuplicateIds \/ UnsupportedIdentifier)) => ~ctor.ok
        /\ ctor.ok =>
               /\ Cardinality(DOMAIN D.id_to_stream) = Cardinality(StreamIdx)
               /\ \A id \in DOMAIN D.id_to_stream :
                      D.id_to_stream[id].content
                          \in {"Events", "Frame", "Imus", "Triggers"}

C11_Witness ==
    /\ ctor.called /\ HasRoot /\ OutInfoIdx # {}
    /\ DuplicateIds
    /\ \E j \in StreamIdx : StreamNodeAt(j).name = <<S_plus0>>
    /\ ~ctor.ok /\ ctor.msg = "duplicated stream id"

\* the stream node gives both sizes: an info node with sizeX and sizeY text
GivesSize(n) ==
    \E info \in NodesOf(n, S_info) :
        /\ \E a \in AttrsOf(info, S_sizeX) : a.text # <<>>
        /\ \E a \in AttrsOf(info, S_sizeY) : a.text # <<>>

\* the stream node's sizeX (sizeY) is the number v
SizeIs(n, key, v) ==
    \E info \in NodesOf(n, S_info) : \E a \in AttrsOf(info, key) :
        a.text # <<>> /\ parse_uint(a.text[1], U16_MAX) = <<v>>

IdentifierIn(n, codes) ==
    \E a \in AttrsOf(n, S_typeIdentifier) : a.text # <<>> /\ a.text[1] \in codes

\* C12: in the registry construction returns, Imus and Triggers streams have width
\* and height 0 with or without an info node, Events and Frame streams have
\* the sizeX and sizeY of their info node; an Events or Frame stream node
\* without info, sizeX or sizeY fails construction.
C12_StreamSizes ==
    (ctor.called /\ ~Called /\ HasRoot /\ OutInfoIdx # {}) =>
        /\ (\E j \in StreamIdx :
                /\ IdentifierIn(StreamNodeAt(j), {EVTS, FRME})
                /\ ~GivesSize(StreamNodeAt(j))) => ~ctor.ok
        /\ ctor.ok =>
               \A j \in StreamIdx :
                   LET n == StreamNodeAt(j)
                       stream == D.id_to_stream[NodeId(n)[1]]
                   IN  /\ stream.content \in {"Imus", "Triggers"}
                           => (stream.width = 0 /\ stream.height = 0)
                       /\ stream.content \in {"Events", "Frame"}
                           => /\ GivesSize(n)
                              /\ SizeIs(n, S_sizeX, stream.width)
                              /\ SizeIs(n, S_sizeY, stream.height)

C12_Witness ==
    /\ ctor.called /\ ctor.ok /\ HasRoot /\ OutInfoIdx # {}
    /\ \E j \in StreamIdx :
           /\ GivesSize(StreamNodeAt(j))
           /\ D.id_to_stream[NodeId(StreamNodeAt(j))[1]].content = "Triggers"
           /\ D.id_to_stream[NodeId(StreamNodeAt(j))[1]].width = 0
    /\ \E j \in StreamIdx :
           /\ NodesOf(StreamNodeAt(j), S_info) = {}
           /\ D.id_to_stream[NodeId(StreamNodeAt(j))[1]].content = "Imus"

\* C13: with compression None a packet carries the stream id and the raw
\* payload bytes of the record at the cursor, the call consumes that one
\* record, and the k-th call yields the k-th record of the source.
C13_UncompressedPacketIsRecord ==
    (Called /\ last.tag = "Ok" /\ PrevD.compression = "None") =>
        /\ CompleteRecord
        /\ last.stream_id = PrevStreamId
        /\ last.buffer = PrevRaw
        /\ cursor = prev.cursor + 8 + PrevLength
        /\ Len(trace) <= Len(input.recs)
        /\ prev.cursor = RecordEnd(input, Len(trace) - 1)
        /\ cursor = RecordEnd(input, Len(trace))
        /\ last.stream_id = input.recs[Len(trace)].stream_id

C13_Witness ==
    /\ Called /\ last.tag = "Ok" /\ PrevD.compression = "None"
    /\ Len(trace) = 2 /\ trace[1] = "Ok"
    /\ last.stream_id = 1
    /\ last.buffer = FlatBuffer(FRME)

\* C14: a call of next() on a Decoder whose file_data_position is known and
\* equal to position returns None, reads no byte and leaves the Decoder as it
\* was, also when the source holds more bytes.
C14_TerminationReadsNothing ==
    (Called /\ PrevD.file_data_position > -1
            /\ PrevD.position = PrevD.file_data_position) =>
        /\ last = OutNone
        /\ cursor = prev.cursor
        /\ decoder = prev.decoder

C14_Witness ==
    /\ Called
    /\ PrevD.file_data_position > -1
    /\ PrevD.position = PrevD.file_data_position
    /\ last = OutNone
    /\ Len(file) >= cursor + 8
    /\ Len(trace) = 2 /\ trace[1] = "Ok"

\* the source ends where a record ends (or where the header ends)
SourceEndsAtBoundary ==
    \E i \in 0..Len(input.recs) : Len(file) = RecordEnd(input, i)

PositionNeverDecreases == Called => D.position >= PrevD.position

\* C15 as stated: position never decreases and is the number of bytes
\* consumed, after construction and after every call of next().
C15_PositionIsBytesConsumed ==
    ctor.ok => (PositionNeverDecreases /\ D.position = cursor)

\* C15: position never decreases; after construction it is the length of
\* the preamble and the length-prefixed header; it is the number of bytes
\* consumed after every call of next() as long as the source has not ended
\* inside a record.
C15_PositionIsBytesConsumedInWholeRecords ==
    ctor.ok =>
        /\ PositionNeverDecreases
        /\ ~Called =>
               /\ D.position = cursor
               /\ kind = "file" => D.position = 14 + 4 + HeaderBodyLen
               /\ kind # "file" => D.position = 4 + HeaderBodyLen
        /\ (cursor < Len(file) \/ SourceEndsAtBoundary) => D.position = cursor

C15_Witness ==
    /\ ctor.ok /\ Len(trace) = 2
    /\ trace[1] = "Ok" /\ last.tag = "Err" /\ last.msg = "unknown stream id"
    /\ D.position = cursor
    /\ D.position = RecordEnd(input, 2)
    /\ D.position > PrevD.position

\* C16: after every call of next() compression, file_data_position and the
\* registry are what the call found.
C16_NextKeepsHeaderFields ==
    Called =>
        /\ D.compression = PrevD.compression
        /\ D.file_data_position = PrevD.file_data_position
        /\ D.id_to_stream = PrevD.id_to_stream

C16_Witness ==
    /\ Called /\ Len(trace) = 3
    /\ trace[1] = "Ok" /\ trace[2] = "Err" /\ last = OutNone
    /\ D.position = RecordEnd(input, 2)
    /\ D.compression = "Zstd"
    /\ D.file_data_position = -1
    /\ DOMAIN D.id_to_stream = {0, 1}

\* C17: once a call of next() has returned None every later call returns
\* None, on a source that holds no more bytes than it held.
C17_NoneIsAbsorbing ==
    \A i \in 1..Len(trace), j \in 1..Len(trace) :
        (i < j /\ trace[i] = "None") => trace[j] = "None"

\* None first by the position check with bytes left in the source, and again
C17_Witness ==
    /\ Len(trace) = 3
    /\ trace[1] = "Ok" /\ trace[2] = "None" /\ trace[3] = "None"
    /\ D.position = D.file_data_position
    /\ cursor < Len(file)

\* C18 as stated: on a file whose file_data_position is known, position
\* never exceeds it and no packet is made of bytes beyond it.
C18_NothingBeyondDataPosition ==
    (kind = "file" /\ ctor.ok /\ D.file_data_position > -1) =>
        /\ D.position <= D.file_data_position
        /\ last.tag = "Ok" => cursor <= D.file_data_position

\* file_data_position is where a record of the source ends (or the header)
DataPositionAtBoundary ==
    \E i \in 0..Len(input.recs) : ioheader.file_data_position = RecordEnd(input, i)

\* C18: on a file whose file_data_position is known and is the end of one of
\* its records, position never exceeds it and no packet is made of bytes
\* beyond it.
C18_NothingBeyondAlignedDataPosition ==
    (kind = "file" /\ ctor.ok /\ D.file_data_position > -1
                   /\ DataPositionAtBoundary) =>
        /\ D.position <= D.file_data_position
        /\ cursor <= D.file_data_position
        /\ last.tag = "Ok" => cursor <= D.file_data_position

C18_Witness ==
    /\ kind = "file" /\ ctor.ok
    /\ Len(input.recs) = 2
    /\ D.file_data_position = RecordEnd(input, 1)
    /\ Len(file) = RecordEnd(input, 2)
    /\ Len(trace) = 3 /\ trace[1] = "Ok" /\ trace[2] = "None" /\ trace[3] = "None"
    /\ D.position = D.file_data_position
    /\ cursor = D.file_data_position

====
